---- MODULE Spec2Model ----
(***************************************************************************)
(* Model of src/state.rs (tmux-thumbs): State::matches, the multi-pattern  *)
(* line scanner and the hint assignment that follows it.                   *)
(*                                                                         *)
(* A line is a sequence of characters, a character a one-symbol string.    *)
(* "ESC" stands for the control character 0x1b and "NL" for the line feed. *)
(* Offsets are 0-based as in the source: the character at offset p of s is *)
(* s[p + 1].                                                               *)
(***************************************************************************)
EXTENDS Integers, Sequences, FiniteSets

\* ------------------------------------------------------------------------
\* Character classes of the regex syntax used by the catalog.
\* ------------------------------------------------------------------------
ESC == "ESC"
NL == "NL"

Digit == {"0", "1", "2", "3", "4", "5", "6", "7", "8", "9"}

LowerHex == Digit \cup {"a", "b", "c", "d", "e", "f"}

AnyHex == LowerHex \cup {"A", "B", "C", "D", "E", "F"}

Lower ==
  {"a", "b", "c", "d", "e", "f", "g", "h", "i", "j", "k", "l", "m", "n", "o",
   "p", "q", "r", "s", "t", "u", "v", "w", "x", "y", "z"}

Upper ==
  {"A", "B", "C", "D", "E", "F", "G", "H", "I", "J", "K", "L", "M", "N", "O",
   "P", "Q", "R", "S", "T", "U", "V", "W", "X", "Y", "Z"}

\* \w
Word == Lower \cup Upper \cup Digit \cup {"_"}

\* [[:cntrl:]]
Cntrl == {ESC, NL}

\* [\w?=%/_.:,;~@!#$&()*+-]
UrlChars ==
  Word \cup {"?", "=", "%", "/", "_", ".", ":", ",", ";", "~", "@", "!", "#",
             "$", "&", "(", ")", "*", "+", "-"}

\* ------------------------------------------------------------------------
\* Regex syntax trees.
\* ------------------------------------------------------------------------
In(S) == [t |-> "cls", neg |-> FALSE, set |-> S]

NotIn(S) == [t |-> "cls", neg |-> TRUE, set |-> S]

Ch(c) == In({c})

Cat(parts) == [t |-> "cat", parts |-> parts]

Alt(alts) == [t |-> "alt", alts |-> alts]

\* greedy e{min,max}; max = -1 is "no upper limit"
Rep(e, min, max) == [t |-> "rep", e |-> e, min |-> min, max |-> max]

Opt(e) == Rep(e, 0, 1)

Star(e) == Rep(e, 0, -1)

Plus(e) == Rep(e, 1, -1)

\* capture group number n
Grp(n, e) == [t |-> "grp", n |-> n, e |-> e]

\* end-of-group marker pushed by the matcher when it enters a group
GrpEnd(n, from) == [t |-> "gend", n |-> n, from |-> from]

\* \B
NotWordBoundary == [t |-> "nwb"]

\* a literal string
Lit(str) == Cat([i \in 1..Len(str) |-> Ch(str[i])])

\* ------------------------------------------------------------------------
\* Leftmost-first matching, as the regex crate defines it: alternatives in
\* order, greedy repetition, first success wins.
\* ------------------------------------------------------------------------
NoMatch == [ok |-> FALSE, start |-> 0, end |-> 0, g |-> <<>>]

IsWordAt(s, p) == p >= 0 /\ p < Len(s) /\ s[p + 1] \in Word

InClass(re, c) == (c \in re.set) # re.neg

\* The length of the longest run of characters of class re from offset p of
\* s on, at most max of them when max >= 0.
RunLength(re, s, p, max) ==
  LET stops == {q \in p..Len(s) : q = Len(s) \/ ~InClass(re, s[q + 1])}
      run == (CHOOSE q \in stops : \A q2 \in stops : q <= q2) - p
  IN IF max >= 0 /\ run > max THEN max ELSE run

\* Matches the regexes of `stack`, one after the other, at offset p of s.
\* g is the span of capture group 1 so far: <<>> or <<from, to>>.
RECURSIVE MatchAt(_, _, _, _)
RECURSIVE MatchRun(_, _, _, _, _, _)
MatchAt(stack, s, p, g) ==
  IF Len(stack) = 0
  THEN [ok |-> TRUE, start |-> p, end |-> p, g |-> g]
  ELSE
    LET re == Head(stack)
        rest == Tail(stack)
    IN CASE re.t = "cls" ->
              IF p < Len(s) /\ InClass(re, s[p + 1])
              THEN MatchAt(rest, s, p + 1, g)
              ELSE NoMatch
         [] re.t = "cat" -> MatchAt(re.parts \o rest, s, p, g)
         [] re.t = "alt" ->
              IF Len(re.alts) = 0
              THEN NoMatch
              ELSE LET r == MatchAt(<<Head(re.alts)>> \o rest, s, p, g)
                   IN IF r.ok
                      THEN r
                      ELSE MatchAt(<<Alt(Tail(re.alts))>> \o rest, s, p, g)
         [] re.t = "rep" /\ re.e.t = "cls" ->
              MatchRun(rest, s, p, g, RunLength(re.e, s, p, re.max), re.min)
         [] re.t = "rep" /\ re.e.t # "cls" ->
              LET less == Rep(re.e,
                              IF re.min > 0 THEN re.min - 1 ELSE 0,
                              IF re.max > 0 THEN re.max - 1 ELSE re.max)
                  more == IF re.max = 0
                          THEN NoMatch
                          ELSE MatchAt(<<re.e, less>> \o rest, s, p, g)
              IN IF more.ok
                 THEN more
                 ELSE IF re.min = 0 THEN MatchAt(rest, s, p, g) ELSE NoMatch
         [] re.t = "grp" -> MatchAt(<<re.e, GrpEnd(re.n, p)>> \o rest, s, p, g)
         [] re.t = "gend" ->
              MatchAt(rest, s, p, IF re.n = 1 THEN <<re.from, p>> ELSE g)
         [] re.t = "nwb" ->
              IF IsWordAt(s, p - 1) = IsWordAt(s, p)
              THEN MatchAt(rest, s, p, g)
              ELSE NoMatch

\* Greedy repetition of a character class: the longest run first, then one
\* character less at a time, down to min.
MatchRun(rest, s, p, g, k, min) ==
  IF k < min
  THEN NoMatch
  ELSE LET r == MatchAt(rest, s, p + k, g)
       IN IF r.ok THEN r ELSE MatchRun(rest, s, p, g, k - 1, min)

\* Regex::find / Regex::captures from offset p on: the match with the least
\* start offset.
RECURSIVE FindFrom(_, _, _)
FindFrom(re, s, p) ==
  IF p > Len(s)
  THEN NoMatch
  ELSE LET r == MatchAt(<<re>>, s, p, <<>>)
       IN IF r.ok
          THEN [ok |-> TRUE, start |-> p, end |-> r.end, g |-> r.g]
          ELSE FindFrom(re, s, p + 1)

\* tuple.1.find_iter(chunk).nth(0)
Find(re, s) == FindFrom(re, s, 0)

\* pattern.captures(text)
Captures(re, s) == FindFrom(re, s, 0)

\* ------------------------------------------------------------------------
\* The catalog.
\* ------------------------------------------------------------------------
\* [[:cntrl:]]\[([0-9]{1,2};)?([0-9]{1,2})?m
BashRe ==
  Cat(<<In(Cntrl), Ch("["),
        Opt(Grp(1, Cat(<<Rep(In(Digit), 1, 2), Ch(";")>>))),
        Opt(Grp(2, Rep(In(Digit), 1, 2))),
        Ch("m")>>)

EXCLUDE_PATTERNS == << [name |-> "bash", re |-> BashRe] >>

\* ((https?://|git@|git://|ssh://|ftp://|file:///)[\w?=%/_.:,;~@!#$&()*+-]*)
UrlRe ==
  Grp(1, Cat(<<
    Grp(2, Alt(<<
      Cat(<<Lit(<<"h", "t", "t", "p">>), Opt(Ch("s")), Lit(<<":", "/", "/">>)>>),
      Lit(<<"g", "i", "t", "@">>),
      Lit(<<"g", "i", "t", ":", "/", "/">>),
      Lit(<<"s", "s", "h", ":", "/", "/">>),
      Lit(<<"f", "t", "p", ":", "/", "/">>),
      Lit(<<"f", "i", "l", "e", ":", "/", "/", "/">>)>>)),
    Star(In(UrlChars))>>))

\* --- a/([^ ]+)
DiffARe ==
  Cat(<<Lit(<<"-", "-", "-", " ", "a", "/">>), Grp(1, Plus(NotIn({" "})))>>)

\* \+\+\+ b/([^ ]+)
DiffBRe ==
  Cat(<<Lit(<<"+", "+", "+", " ", "b", "/">>), Grp(1, Plus(NotIn({" "})))>>)

\* [^ ]+/[^ [[:cntrl:]]]+
PathRe ==
  Cat(<<Plus(NotIn({" "})), Ch("/"), Plus(NotIn({" "} \cup Cntrl))>>)

\* #[0-9a-fA-F]{6}
ColorRe == Cat(<<Ch("#"), Rep(In(AnyHex), 6, 6)>>)

\* [0-9a-f]{8}-[0-9a-f]{4}-[0-9a-f]{4}-[0-9a-f]{4}-[0-9a-f]{12}
UidRe ==
  Cat(<<Rep(In(LowerHex), 8, 8), Ch("-"), Rep(In(LowerHex), 4, 4), Ch("-"),
        Rep(In(LowerHex), 4, 4), Ch("-"), Rep(In(LowerHex), 4, 4), Ch("-"),
        Rep(In(LowerHex), 12, 12)>>)

\* [0-9a-f]{7,40}
ShaRe == Rep(In(LowerHex), 7, 40)

\* \d{1,3}\.\d{1,3}\.\d{1,3}\.\d{1,3}
IpRe ==
  Cat(<<Rep(In(Digit), 1, 3), Ch("."), Rep(In(Digit), 1, 3), Ch("."),
        Rep(In(Digit), 1, 3), Ch("."), Rep(In(Digit), 1, 3)>>)

\* 0x[0-9a-fA-F]+
AddressRe == Cat(<<Ch("0"), Ch("x"), Plus(In(AnyHex))>>)

\* [0-9]{4,}
NumberRe == Rep(In(Digit), 4, -1)

PATTERNS ==
  << [name |-> "url", re |-> UrlRe],
     [name |-> "diff_a", re |-> DiffARe],
     [name |-> "diff_b", re |-> DiffBRe],
     [name |-> "path", re |-> PathRe],
     [name |-> "color", re |-> ColorRe],
     [name |-> "uid", re |-> UidRe],
     [name |-> "sha", re |-> ShaRe],
     [name |-> "ip", re |-> IpRe],
     [name |-> "address", re |-> AddressRe],
     [name |-> "number", re |-> NumberRe] >>

\* ------------------------------------------------------------------------
\* Inputs.
\* ------------------------------------------------------------------------
\* Fragments a text is put together from.
Frags ==
  { <<"a", "/", "b">>,
    <<"0", "x", "1">>,
    <<ESC, "[", "m">>,
    <<"-", "-", "-", " ">>,
    <<"+", "+", "+", " ", "b", "/">>,
    <<NL>> }

\* The most fragments in a text.
MaxFrags == 3

RECURSIVE Texts(_)
Texts(n) ==
  IF n = 0
  THEN {<<>>}
  ELSE LET shorter == Texts(n - 1)
       IN shorter \cup {t \o f : t \in shorter, f \in Frags}

\* output.split("\n").collect()
RECURSIVE split(_)
split(output) ==
  LET breaks == {i \in 1..Len(output) : output[i] = NL}
  IN IF breaks = {}
     THEN <<output>>
     ELSE LET i == CHOOSE b \in breaks : \A b2 \in breaks : b <= b2
          IN <<SubSeq(output, 1, i - 1)>>
               \o split(SubSeq(output, i + 1, Len(output)))

\* The custom pattern strings the model knows, compiled.
CustomRe(regexp_str) ==
  CASE regexp_str = "-(-)?" -> Cat(<<Ch("-"), Opt(Grp(1, Ch("-")))>>)
    [] regexp_str = " (z*)" -> Cat(<<Ch(" "), Grp(1, Star(Ch("z")))>>)
    [] regexp_str = "0\\B" -> Cat(<<Ch("0"), NotWordBoundary>>)
    [] regexp_str = "x*" -> Star(Ch("x"))

\* The lists of custom patterns State::new is given.
CustomLists == { <<>>, <<"-(-)?", " (z*)">>, <<"0\\B", "x*">> }

\* ------------------------------------------------------------------------
\* State.
\* ------------------------------------------------------------------------
VARIABLES
  lines,        \* State.lines
  regexp,       \* State.regexp
  reverse,      \* argument of matches(); FALSE until line 126 reads it
  unique,       \* argument of matches(); FALSE until line 130 reads it
  pc,           \* where matches() is
  index,        \* line index of the for loop
  chunk,        \* the unconsumed suffix of the line
  offset,       \* offset of chunk in the line
  iters,        \* iterations of the inner loop done on this line
  stalls,       \* those of them that consumed nothing
  submatches,   \* the first match of every pattern that has one
  first_match,  \* <<>> (None) or <<the winner of the contest>>
  skipped,      \* the spans bash matches consumed: <<y, from, to>>
  matches,      \* the Vec<Match> being built
  asked,        \* the count alphabet.hints() was called with
  hints,        \* the hint stack
  previous,     \* unique mode: text -> hint
  cursor        \* position of `for mat in &mut matches`

vars ==
  <<lines, regexp, reverse, unique, pc, index, chunk, offset, iters, stalls,
    submatches, first_match, skipped, matches, asked, hints, previous, cursor>>

None == <<>>

Some(v) == <<v>>

Reverse(seq) == [i \in 1..Len(seq) |-> seq[Len(seq) + 1 - i]]

\* all_patterns = [exclude_patterns, custom_patterns, patterns].concat()
AllPatterns(custom) ==
  EXCLUDE_PATTERNS
    \o [i \in 1..Len(custom) |-> [name |-> "custom", re |-> CustomRe(custom[i])]]
    \o PATTERNS

\* all_patterns.iter().filter_map(|tuple| tuple.1.find_iter(chunk).nth(0))
Submatches(all, text) ==
  LET found == [i \in 1..Len(all) |->
                  LET m == Find(all[i].re, text)
                  IN [ok |-> m.ok, idx |-> i, name |-> all[i].name,
                      start |-> m.start, end |-> m.end]]
      Matched(m) == m.ok
  IN SelectSeq(found, Matched)

\* min_by, had it kept the last of the elements with the least start.
RECURSIVE MinByStartLast(_)
MinByStartLast(subs) ==
  IF Len(subs) = 0
  THEN None
  ELSE IF Len(subs) = 1
       THEN Some(subs[1])
       ELSE LET best == MinByStartLast(SubSeq(subs, 1, Len(subs) - 1))[1]
                last == subs[Len(subs)]
            IN IF last.start <= best.start THEN Some(last) ELSE Some(best)

\* submatches.iter().min_by(|x, y| x.2.start().cmp(&y.2.start())): the
\* first of the elements with the least start.
RECURSIVE MinByStart(_)
MinByStart(subs) ==
  IF Len(subs) = 0
  THEN None
  ELSE IF Len(subs) = 1
       THEN Some(subs[1])
       ELSE LET best == MinByStart(SubSeq(subs, 1, Len(subs) - 1))[1]
                last == subs[Len(subs)]
            IN IF last.start < best.start THEN Some(last) ELSE Some(best)

Init ==
  /\ lines \in {split(t) : t \in Texts(MaxFrags)}
  /\ regexp \in CustomLists
  /\ reverse = FALSE
  /\ unique = FALSE
  /\ pc = "for"
  /\ index = 0
  /\ chunk = <<>>
  /\ offset = 0
  /\ iters = 0
  /\ stalls = 0
  /\ submatches = <<>>
  /\ first_match = None
  /\ skipped = {}
  /\ matches = <<>>
  /\ asked = 0
  /\ hints = <<>>
  /\ previous = <<>>
  /\ cursor = 1

\* ------------------------------------------------------------------------
\* The scan (lines 74-118).
\* ------------------------------------------------------------------------
\* matching.as_str()
MatchedText(c, fm) == SubSeq(c, fm.start + 1, fm.end)

\* pattern.captures(text): the winning pattern, run again on the matched
\* text alone.
CapturesOf(custom, fm, text) == Captures(AllPatterns(custom)[fm.idx].re, text)

\* The abort, had it also covered a capture group 1 that took no part.
NoCapturesOrNoGroup(caps) == ~caps.ok \/ caps.g = <<>>

\* pattern.captures(text) is None
NoCaptures(caps) == ~caps.ok

\* (subtext, substart): group 1 if it took part in the match, the whole
\* match otherwise.
Subspan(caps, text) ==
  IF caps.g # <<>>
  THEN [subtext |-> SubSeq(text, caps.g[1] + 1, caps.g[2]), substart |-> caps.g[1]]
  ELSE [subtext |-> text, substart |-> 0]

\* The test, had it let bash through.
EmittedAlways(name) == TRUE

\* *name != "bash"
Emitted(name) == name # "bash"

\* The match, had x left out substart.
NewMatchAtMatchStart(off, y, fm, span) ==
  [x |-> off + fm.start, y |-> y, text |-> span.subtext, hint |-> None]

\* Match{ x: offset + matching.start() + substart, y: index, text: subtext,
\*        hint: None }
NewMatch(off, y, fm, span) ==
  [x |-> off + fm.start + span.substart, y |-> y, text |-> span.subtext,
   hint |-> None]

\* chunk.get(matching.end()..)
RestOf(c, fm) == SubSeq(c, fm.end + 1, Len(c))

\* The offset, had it advanced to the start of the match.
NextOffsetFromStart(off, fm) == off + fm.start

\* offset + matching.end()
NextOffset(off, fm) == off + fm.end

\* The most iterations without progress the model follows on one line.
MaxStalls == 2

scanVars ==
  <<chunk, offset, iters, stalls, submatches, first_match, skipped>>

allocVars == <<asked, hints, previous, cursor>>

inputVars == <<lines, regexp>>

flagVars == <<reverse, unique>>

\* for (index, line) in self.lines.iter().enumerate(): the next line.
ForLine ==
  /\ pc = "for"
  /\ index < Len(lines)
  /\ chunk' = lines[index + 1]
  /\ offset' = 0
  /\ iters' = 0
  /\ stalls' = 0
  /\ pc' = "loop"
  /\ UNCHANGED <<inputVars, flagVars, index, submatches, first_match, skipped, matches,
                 allocVars>>

\* The for loop is over.
ForDone ==
  /\ pc = "for"
  /\ index >= Len(lines)
  /\ pc' = "hints"
  /\ UNCHANGED <<inputVars, flagVars, index, scanVars, matches, allocVars>>

\* Lines 79-85: the first match of every pattern in chunk, and the winner.
\* An iteration that consumes nothing repeats for ever; the model follows
\* MaxStalls of them.
FindFirst ==
  /\ pc = "loop"
  /\ stalls < MaxStalls
  /\ submatches' = Submatches(AllPatterns(regexp), chunk)
  /\ first_match' = MinByStart(submatches')
  /\ pc' = "found"
  /\ UNCHANGED <<inputVars, flagVars, index, chunk, offset, iters, stalls,
                 skipped, matches, allocVars>>

\* Lines 87-109, a pattern other than bash won: push the match, advance.
Emit ==
  /\ pc = "found"
  /\ first_match # None
  /\ LET fm == first_match[1]
         text == MatchedText(chunk, fm)
         caps == CapturesOf(regexp, fm, text)
     IN /\ ~NoCaptures(caps)
        /\ Emitted(fm.name)
        /\ matches' = Append(matches, NewMatch(offset, index, fm, Subspan(caps, text)))
        /\ chunk' = RestOf(chunk, fm)
        /\ offset' = NextOffset(offset, fm)
  /\ iters' = iters + 1
  /\ stalls' = IF chunk' = chunk THEN stalls + 1 ELSE stalls
  /\ pc' = "loop"
  /\ UNCHANGED <<inputVars, flagVars, index, submatches, first_match, skipped,
                 allocVars>>

\* Lines 87-109, bash won: advance only.
Skip ==
  /\ pc = "found"
  /\ first_match # None
  /\ LET fm == first_match[1]
         text == MatchedText(chunk, fm)
         caps == CapturesOf(regexp, fm, text)
     IN /\ ~NoCaptures(caps)
        /\ ~Emitted(fm.name)
        /\ skipped' = skipped \cup {<<index, offset + fm.start, offset + fm.end>>}
        /\ chunk' = RestOf(chunk, fm)
        /\ offset' = NextOffset(offset, fm)
  /\ iters' = iters + 1
  /\ stalls' = IF chunk' = chunk THEN stalls + 1 ELSE stalls
  /\ pc' = "loop"
  /\ UNCHANGED <<inputVars, flagVars, index, submatches, first_match, matches,
                 allocVars>>

\* Lines 111-113: panic!("No matching?")
Panic ==
  /\ pc = "found"
  /\ first_match # None
  /\ LET fm == first_match[1]
     IN NoCaptures(CapturesOf(regexp, fm, MatchedText(chunk, fm)))
  /\ pc' = "panic"
  /\ UNCHANGED <<inputVars, flagVars, index, scanVars, matches, allocVars>>

\* Lines 114-116: no pattern matches, break; on to the next line.
Break ==
  /\ pc = "found"
  /\ first_match = None
  /\ index' = index + 1
  /\ pc' = "for"
  /\ UNCHANGED <<inputVars, flagVars, scanVars, matches, allocVars>>

\* ------------------------------------------------------------------------
\* Hint assignment (lines 120-153).
\* ------------------------------------------------------------------------
\* alphabet.hints(count): count distinct hints in a fixed order. The hint
\* generator is not part of state.rs; hint number i stands for its i-th hint.
AlphabetHints(count) == [i \in 1..count |-> i]

\* The count, had it been taken after dedup.
HintsAskedDistinct(ms) == Cardinality({ms[i].text : i \in 1..Len(ms)})

\* alphabet.hints(matches.len()): the count asked for.
HintsAsked(ms) == Len(ms)

\* hints.pop()
Pop(hs) == IF Len(hs) = 0 THEN None ELSE Some(hs[Len(hs)])

Popped(hs) == IF Len(hs) = 0 THEN hs ELSE SubSeq(hs, 1, Len(hs) - 1)

\* HashMap::insert
Insert(map, key, value) ==
  [k \in DOMAIN map \cup {key} |-> IF k = key THEN value ELSE map[k]]

\* The stack, had the hints not been reversed before the pops.
HintStackNotReversed(hs) == hs

\* hints.reverse(): "This looks wrong but we do a pop after"
HintStack(hs) == Reverse(hs)

\* if reverse { matches.reverse(); } before the walk
WalkOrder(ms, rev) == IF rev THEN Reverse(ms) ELSE ms

\* The returned list, had the second reverse been left out.
NotRestored(ms, rev) == ms

\* if reverse { matches.reverse(); } after the walk
Restored(ms, rev) == IF rev THEN Reverse(ms) ELSE ms

\* The unique walk, had it popped a hint for every match.
UniqueStepNoReuse(mat, hs, prev) ==
  IF Pop(hs) # None
  THEN [mat |-> [mat EXCEPT !.hint = Pop(hs)], hints |-> Popped(hs),
        previous |-> Insert(prev, mat.text, Pop(hs)[1])]
  ELSE [mat |-> mat, hints |-> Popped(hs), previous |-> prev]

\* Lines 134-139: one iteration of the unique walk on mat.
UniqueStep(mat, hs, prev) ==
  IF mat.text \in DOMAIN prev
  THEN [mat |-> [mat EXCEPT !.hint = Some(prev[mat.text])], hints |-> hs,
        previous |-> prev]
  ELSE IF Pop(hs) # None
       THEN [mat |-> [mat EXCEPT !.hint = Pop(hs)], hints |-> Popped(hs),
             previous |-> Insert(prev, mat.text, Pop(hs)[1])]
       ELSE [mat |-> mat, hints |-> Popped(hs), previous |-> prev]

\* Lines 143-145: one iteration of the plain walk on mat.
PlainStep(mat, hs) ==
  IF Pop(hs) # None
  THEN [mat |-> [mat EXCEPT !.hint = Pop(hs)], hints |-> Popped(hs)]
  ELSE [mat |-> mat, hints |-> Popped(hs)]

\* Lines 120-131: ask for the hints, turn them into a stack, reverse the
\* matches for the walk. The two arguments of matches() are drawn here, where
\* the code first reads them.
AllocHints(rev, uniq) ==
  /\ pc = "hints"
  /\ reverse' = rev
  /\ unique' = uniq
  /\ asked' = HintsAsked(matches)
  /\ hints' = HintStack(AlphabetHints(HintsAsked(matches)))
  /\ matches' = WalkOrder(matches, rev)
  /\ previous' = <<>>
  /\ cursor' = 1
  /\ pc' = IF uniq THEN "unique" ELSE "plain"
  /\ UNCHANGED <<inputVars, index, scanVars>>

\* Lines 133-140.
AssignUnique ==
  /\ pc = "unique"
  /\ cursor <= Len(matches)
  /\ LET r == UniqueStep(matches[cursor], hints, previous)
     IN /\ matches' = [matches EXCEPT ![cursor] = r.mat]
        /\ hints' = r.hints
        /\ previous' = r.previous
  /\ cursor' = cursor + 1
  /\ UNCHANGED <<inputVars, flagVars, pc, index, scanVars, asked>>

\* Lines 142-146.
AssignPlain ==
  /\ pc = "plain"
  /\ cursor <= Len(matches)
  /\ LET r == PlainStep(matches[cursor], hints)
     IN /\ matches' = [matches EXCEPT ![cursor] = r.mat]
        /\ hints' = r.hints
  /\ cursor' = cursor + 1
  /\ UNCHANGED <<inputVars, flagVars, pc, index, scanVars, asked, previous>>

\* Lines 149-153: restore the order, return.
Return ==
  /\ pc \in {"unique", "plain"}
  /\ cursor > Len(matches)
  /\ matches' = Restored(matches, reverse)
  /\ pc' = "done"
  /\ UNCHANGED <<inputVars, flagVars, index, scanVars, allocVars>>

Next ==
  \/ ForLine
  \/ ForDone
  \/ FindFirst
  \/ Emit
  \/ Skip
  \/ Panic
  \/ Break
  \/ \E rev \in BOOLEAN, uniq \in BOOLEAN : AllocHints(rev, uniq)
  \/ AssignUnique
  \/ AssignPlain
  \/ Return

Spec == Init /\ [][Next]_vars

\* ------------------------------------------------------------------------
\* Vocabulary of the properties.
\* ------------------------------------------------------------------------
\* The line with index y.
Line(y) == lines[y + 1]

\* s[from..to], offsets as in the source
Slice(s, from, to) == SubSeq(s, from + 1, to)

Scanning == pc \in {"loop", "found"}

Walking == pc \in {"unique", "plain"}

\* The matches in the order the walk visits them.
Walk == IF pc = "done" /\ reverse THEN Reverse(matches) ELSE matches

\* How many of them the walk has visited.
Walked == IF pc = "done" THEN Len(matches) ELSE cursor - 1

TextsOf(ms, n) == {ms[j].text : j \in 1..n}

\* The spans [from, to) do not intersect.
Apart(from1, to1, from2, to2) == to1 <= from2 \/ to2 <= from1

\* The winner of the contest, at pc = "found", and what the code derives
\* from it.
Winner == first_match[1]

WinnerText == MatchedText(chunk, Winner)

WinnerCaptures == CapturesOf(regexp, Winner, WinnerText)

\* The regex has a capture group 1.
RECURSIVE HasGroup1(_)
HasGroup1(re) ==
  CASE re.t = "grp" -> re.n = 1 \/ HasGroup1(re.e)
    [] re.t = "rep" -> HasGroup1(re.e)
    [] re.t = "cat" -> \E i \in 1..Len(re.parts) : HasGroup1(re.parts[i])
    [] re.t = "alt" -> \E i \in 1..Len(re.alts) : HasGroup1(re.alts[i])
    [] OTHER -> FALSE

\* The winner has a capture group 1 that took no part in its match.
GroupAbsent ==
  /\ pc = "found"
  /\ first_match # None
  /\ HasGroup1(AllPatterns(regexp)[Winner.idx].re)
  /\ WinnerCaptures.ok
  /\ WinnerCaptures.g = <<>>

BuiltInNames == {PATTERNS[i].name : i \in 1..Len(PATTERNS)}

\* ------------------------------------------------------------------------
\* C1
\* ------------------------------------------------------------------------
\* C1, as the claim states it: whatever reverse and unique are, two
\* consecutive returned matches m1, m2 have m1.y < m2.y, or m1.y = m2.y and
\* m1.x < m2.x.
C1_StrictOrder ==
  pc = "done" =>
    \A i \in 1..(Len(matches) - 1) :
      LET m1 == matches[i]
          m2 == matches[i + 1]
      IN m1.y < m2.y \/ (m1.y = m2.y /\ m1.x < m2.x)

\* C1, amended: whatever reverse and unique are, two consecutive returned
\* matches m1, m2 have m1.y < m2.y, or m1.y = m2.y and m1.x <= m2.x, where
\* m1.x = m2.x only if the text of m1 is empty.
C1_ReturnedInOrder ==
  pc = "done" =>
    \A i \in 1..(Len(matches) - 1) :
      LET m1 == matches[i]
          m2 == matches[i + 1]
      IN \/ m1.y < m2.y
         \/ m1.y = m2.y /\ m1.x < m2.x
         \/ m1.y = m2.y /\ m1.x = m2.x /\ Len(m1.text) = 0

\* A reverse run returned matches of two lines, two of them on one line.
C1_Witness ==
  /\ pc = "done"
  /\ reverse
  /\ \E i \in 1..(Len(matches) - 1) : matches[i].y = matches[i + 1].y
  /\ \E i \in 1..(Len(matches) - 1) : matches[i].y < matches[i + 1].y

\* ------------------------------------------------------------------------
\* C4
\* ------------------------------------------------------------------------
\* C4, as the claim states it: the count of hints asked for is the number
\* of matches when unique is false and the number of distinct matched texts
\* when unique is true.
C4_AskedAfterDedup ==
  (Walking \/ pc = "done") =>
    asked = IF unique
            THEN Cardinality(TextsOf(matches, Len(matches)))
            ELSE Len(matches)

\* C4, amended: the count of hints asked for is the number of collected
\* matches, whatever unique is; in unique mode the walk takes as many of
\* them as there are distinct matched texts and leaves the rest unused, in
\* plain mode it takes them all.
C4_AskedForEveryMatch ==
  /\ (Walking \/ pc = "done") => asked = Len(matches)
  /\ pc = "done" =>
       asked - Len(hints) =
         IF unique
         THEN Cardinality(TextsOf(matches, Len(matches)))
         ELSE Len(matches)

\* A unique run over matches that repeat a text has returned.
C4_Witness ==
  /\ pc = "done"
  /\ unique
  /\ Cardinality(TextsOf(matches, Len(matches))) < Len(matches)
  /\ Len(hints) > 0

\* ------------------------------------------------------------------------
\* C6
\* ------------------------------------------------------------------------
\* C6: the winner of the contest is a pattern whose first match starts at
\* the least offset, and among those that start there the first of the
\* catalog, which lists the exclusion pattern, then the custom patterns as
\* supplied, then the built-ins in their fixed order; so no built-in wins
\* while a custom pattern has a match that starts at the same offset or
\* before it.
C6_LeftmostThenCatalogOrder ==
  pc = "found" =>
    LET all == AllPatterns(regexp)
        subs == {submatches[i] : i \in 1..Len(submatches)}
    IN /\ [i \in 1..Len(all) |-> all[i].name]
            = <<"bash">> \o [i \in 1..Len(regexp) |-> "custom"]
                \o <<"url", "diff_a", "diff_b", "path", "color", "uid",
                     "sha", "ip", "address", "number">>
       /\ \A i \in 1..Len(submatches) :
            /\ submatches[i].name = all[submatches[i].idx].name
            /\ \A j \in 1..(i - 1) : submatches[j].idx < submatches[i].idx
       /\ (first_match = None) = (subs = {})
       /\ first_match # None =>
            /\ Winner \in subs
            /\ \A m \in subs :
                 \/ Winner.start < m.start
                 \/ Winner.start = m.start /\ Winner.idx <= m.idx
            /\ \A c \in subs, b \in subs :
                 (c.name = "custom" /\ b.name \in BuiltInNames
                    /\ c.start <= b.start) => Winner # b

\* A custom pattern won against a built-in whose match starts at the same
\* offset.
C6_Witness ==
  /\ pc = "found"
  /\ first_match # None
  /\ Winner.name = "custom"
  /\ \E i \in 1..Len(submatches) :
       /\ submatches[i].name \in BuiltInNames
       /\ submatches[i].start = Winner.start

\* ------------------------------------------------------------------------
\* C9
\* ------------------------------------------------------------------------
\* C9: in every state, the spans of two matches of one line do not
\* intersect, the span an exclusion match consumed intersects neither the
\* span of a match nor another consumed span, and during the scan of a line
\* every such span of the line ends at or before offset, where chunk begins.
C9_SpansDisjoint ==
  /\ \A i \in 1..Len(matches), j \in 1..Len(matches) :
       (i # j /\ matches[i].y = matches[j].y) =>
         Apart(matches[i].x, matches[i].x + Len(matches[i].text),
               matches[j].x, matches[j].x + Len(matches[j].text))
  /\ \A i \in 1..Len(matches), sk \in skipped :
       matches[i].y = sk[1] =>
         Apart(matches[i].x, matches[i].x + Len(matches[i].text), sk[2], sk[3])
  /\ \A sk1 \in skipped, sk2 \in skipped :
       (sk1 # sk2 /\ sk1[1] = sk2[1]) => Apart(sk1[2], sk1[3], sk2[2], sk2[3])
  /\ Scanning =>
       /\ chunk = Slice(Line(index), offset, Len(Line(index)))
       /\ \A i \in 1..Len(matches) :
            matches[i].y = index => matches[i].x + Len(matches[i].text) <= offset
       /\ \A sk \in skipped : sk[1] = index => sk[3] <= offset

\* The scan of a line has emitted two matches and consumed an exclusion
\* match between them.
C9_Witness ==
  /\ pc = "loop"
  /\ \E i \in 1..Len(matches), j \in 1..Len(matches), sk \in skipped :
       /\ matches[i].y = index
       /\ matches[j].y = index
       /\ sk[1] = index
       /\ matches[i].x + Len(matches[i].text) <= sk[2]
       /\ sk[3] <= matches[j].x

\* ------------------------------------------------------------------------
\* C10
\* ------------------------------------------------------------------------
\* C10: the scan of a line ends: every iteration that finds a match leaves
\* a shorter chunk, so a line sees at most as many iterations, and emits at
\* most as many matches, as it has characters.
C10_ScanTerminates ==
  Scanning =>
    /\ stalls = 0
    /\ iters <= Len(Line(index))
    /\ Cardinality({i \in 1..Len(matches) : matches[i].y = index})
         <= Len(Line(index))

\* ------------------------------------------------------------------------
\* C2
\* ------------------------------------------------------------------------
\* C2: in unique mode, of the matches the walk has visited, one whose text
\* an earlier one has carries the hint of the first match of that text and
\* took no hint from the stack, and one whose text is new carries the next
\* hint of the generator's sequence, which previous records for its text;
\* so two visited matches carry the same hint exactly if their texts are
\* the same.
C2_UniqueSharesHints ==
  (pc = "unique" \/ (pc = "done" /\ unique)) =>
    LET w == Walk
        n == Walked
        seq == AlphabetHints(asked)
        First(k) == CHOOSE j \in 1..k :
                      /\ w[j].text = w[k].text
                      /\ \A j2 \in 1..(j - 1) : w[j2].text # w[k].text
        Rank(k) == Cardinality(TextsOf(w, First(k)))
    IN /\ \A k \in 1..n : w[k].hint = Some(seq[Rank(k)])
       /\ Len(hints) = asked - Cardinality(TextsOf(w, n))
       /\ DOMAIN previous = TextsOf(w, n)
       /\ \A k \in 1..n : Some(previous[w[k].text]) = w[k].hint
       /\ \A i \in 1..n, j \in 1..n :
            (w[i].text = w[j].text) = (w[i].hint = w[j].hint)

\* A unique run returned two matches of one text and a match of another.
C2_Witness ==
  /\ pc = "done"
  /\ unique
  /\ \E i \in 1..Len(matches), j \in 1..Len(matches), k \in 1..Len(matches) :
       /\ i < j
       /\ matches[i].text = matches[j].text
       /\ matches[i].hint = matches[j].hint
       /\ matches[i].hint # None
       /\ matches[k].text # matches[i].text
       /\ matches[k].hint # None

\* ------------------------------------------------------------------------
\* C3
\* ------------------------------------------------------------------------
\* C3: in plain mode the k-th match the walk visits carries the k-th hint
\* of the generator's sequence, repeated text or not; so of the n returned
\* matches the i-th carries the i-th hint when reverse is false and the
\* (n + 1 - i)-th when reverse is true.
C3_PlainHintsInWalkOrder ==
  (pc = "plain" \/ (pc = "done" /\ ~unique)) =>
    LET seq == AlphabetHints(asked)
        n == Len(matches)
    IN /\ \A k \in 1..Walked : Walk[k].hint = Some(seq[k])
       /\ Len(hints) = asked - Walked
       /\ pc = "done" =>
            \A i \in 1..n :
              matches[i].hint = Some(seq[IF reverse THEN n + 1 - i ELSE i])

\* A plain reverse run returned matches that repeat a text: the last one
\* carries the first hint.
C3_Witness ==
  /\ pc = "done"
  /\ ~unique
  /\ reverse
  /\ Len(matches) >= 3
  /\ matches[Len(matches)].hint = Some(AlphabetHints(asked)[1])
  /\ matches[1].hint = Some(AlphabetHints(asked)[Len(matches)])
  /\ \E i \in 1..Len(matches), j \in 1..Len(matches) :
       i # j /\ matches[i].text = matches[j].text

\* ------------------------------------------------------------------------
\* C5
\* ------------------------------------------------------------------------
\* The iteration that bash won ends.
C5_BashStep == pc = "found" /\ first_match # None /\ Winner.name = "bash" /\ pc' = "loop"

\* C5: an iteration that the bash pattern wins appends no match and moves
\* chunk and offset to the end of the whole bash match, the end of the
\* escape sequence that starts there on the line; and no returned
\* match has a span that intersects a span bash consumed, so none carries
\* a hint for one.
C5_ExclusionConsumedNotEmitted ==
  /\ [][C5_BashStep =>
          /\ matches' = matches
          /\ offset' = offset + Winner.end
          /\ Winner.end > Winner.start
          /\ chunk' = Slice(Line(index), offset', Len(Line(index)))
          /\ LET seen == MatchAt(<<BashRe>>, Line(index),
                                  offset + Winner.start, <<>>)
             IN seen.ok /\ seen.end = offset']_vars
  /\ [](pc = "done" =>
          \A i \in 1..Len(matches), sk \in skipped :
            matches[i].y = sk[1] =>
              Apart(matches[i].x, matches[i].x + Len(matches[i].text),
                    sk[2], sk[3]))

\* The line of a path wrapped in colour escapes returned the path alone.
C5_Witness ==
  /\ pc = "done"
  /\ lines = << <<ESC, "[", "m", "a", "/", "b", ESC, "[", "m">> >>
  /\ skipped = {<<0, 0, 3>>, <<0, 6, 9>>}
  /\ Len(matches) = 1
  /\ matches[1].x = 3
  /\ matches[1].text = <<"a", "/", "b">>
  /\ matches[1].hint # None

\* ------------------------------------------------------------------------
\* C7
\* ------------------------------------------------------------------------
\* The winner of the last iteration of this line, once the iteration is over.
C7_AfterStep == pc = "loop" /\ iters > 0 /\ first_match # None

\* C7: every match has the index of a line as y and as text the characters
\* of that line from offset x on; an iteration emits one match when a
\* pattern other than bash wins and none when bash wins; the match lies
\* in the span of the whole match on the line of the scan, is that span
\* for a built-in without a capture group, and is what follows the six
\* characters of "--- a/" or "+++ b/" for the diff patterns.
C7_TextIsTheEmittedSpan ==
  /\ \A i \in 1..Len(matches) :
       LET m == matches[i]
       IN /\ m.y \in 0..(Len(lines) - 1)
          /\ m.x >= 0
          /\ m.text = Slice(Line(m.y), m.x, m.x + Len(m.text))
  /\ Scanning =>
       Cardinality({i \in 1..Len(matches) : matches[i].y = index})
         + Cardinality({sk \in skipped : sk[1] = index}) = iters
  /\ (C7_AfterStep /\ Winner.name # "bash") =>
       LET m == matches[Len(matches)]
           from == offset - Winner.end + Winner.start
       IN /\ m.y = index
          /\ m.hint = None
          /\ from <= m.x
          /\ m.x + Len(m.text) <= offset
          /\ Winner.name \in {"path", "color", "uid", "sha", "ip", "address",
                              "number", "url"} =>
               m.x = from /\ m.x + Len(m.text) = offset
          /\ Winner.name \in {"diff_a", "diff_b"} =>
               /\ m.x = from + 6
               /\ m.x + Len(m.text) = offset
               /\ Slice(Line(index), from, m.x) \in
                    { <<"-", "-", "-", " ", "a", "/">>,
                      <<"+", "+", "+", " ", "b", "/">> }

\* The line "--- a/b" has given the match "b" at offset 6.
C7_Witness ==
  /\ C7_AfterStep
  /\ Winner.name = "diff_a"
  /\ Line(index) = <<"-", "-", "-", " ", "a", "/", "b">>
  /\ matches[Len(matches)].x = 6
  /\ matches[Len(matches)].text = <<"b">>

\* ------------------------------------------------------------------------
\* C8
\* ------------------------------------------------------------------------
\* C8, as the claim states it: when capture group 1 of the winner took no
\* part in the match, the scan aborts and emits no match.
C8_AbortsWhenGroupAbsent ==
  [][GroupAbsent => (pc' = "panic" /\ matches' = matches)]_vars

\* C8, amended: when capture group 1 of the winner took no part in the
\* match, the iteration goes on as for a pattern without a group: it emits
\* the whole match, at the offset where it starts (nothing if bash won),
\* and the scan continues. The scan aborts only when the winning pattern
\* does not match the matched text taken alone; it then emits no match and
\* never returns a result.
C8_AbsentGroupEmitsWholeMatch ==
  /\ [][GroupAbsent =>
          /\ pc' = "loop"
          /\ chunk' = Slice(chunk, Winner.end, Len(chunk))
          /\ matches' =
               IF Winner.name = "bash"
               THEN matches
               ELSE Append(matches,
                           [x |-> offset + Winner.start, y |-> index,
                            text |-> WinnerText, hint |-> None])]_vars
  /\ [][(pc # "panic" /\ pc' = "panic") =>
          /\ pc = "found"
          /\ first_match # None
          /\ ~WinnerCaptures.ok
          /\ matches' = matches]_vars
  /\ [][pc = "panic" => pc' = "panic"]_vars

\* The custom pattern -(-)? won with "-" alone, and "-" was emitted.
C8_Witness ==
  /\ C7_AfterStep
  /\ Winner.name = "custom"
  /\ regexp[Winner.idx - 1] = "-(-)?"
  /\ Winner.end = Winner.start + 1
  /\ matches[Len(matches)].text = <<"-">>
  /\ matches[Len(matches)].x = offset - 1

====
